---- MODULE Spec2Model ----
(***************************************************************************)
(* Model of send_DMs.py (outrage_classification_stream): the dispatch loop *)
(* of main(), the ledger of users already messaged (df_users_DMed), its    *)
(* import from and export to the external store, over sequential runs.     *)
(*                                                                         *)
(* The blob-store transport (boto3) is taken to deliver what it is given;  *)
(* the one fetch failure modelled is the ledger object being absent.  The  *)
(* working directory is taken to hold no ledger file that the store does   *)
(* not hold (the names of the import and export objects are the same, so   *)
(* that each run loads what the previous run exported).                    *)
(*                                                                         *)
(* Spec         : main() as it is in the source; the friend/DM status      *)
(*                check of the loop is the constants that main() assigns.  *)
(* SpecCrash    : Spec, and the process may be killed or interrupted.      *)
(* SpecResolver : the loop with the call of see_friend_and_DM_status that  *)
(*                the source has commented out, and its two handlers.      *)
(* SpecRun, SpecResolverRun : the first run of Spec and of SpecResolver.   *)
(* SpecSelector : Part I of main(), the candidate table built from data.   *)
(* SpecResolverRunFair : SpecResolverRun, the run always taking its next   *)
(*                step (liveness).                                         *)
(* SpecStream   : stream.py, the callbacks of the Listener.                *)
(* SpecClean    : clean.py, standard_parse on a list of raw tweets.        *)
(* SpecReceive  : receive_DMs.py, the replies picked from the inbox.       *)
(***************************************************************************)
EXTENDS Integers, Sequences, FiniteSets, TLC

\* ------------------------------------------------------------------ bounds
NumUsers == 2
MaxBatch == 2
MaxRuns  == 2

Users == 1..NumUsers

\* ------------------------------------------------------------- state
VARIABLES
  run,                           \* number of runs of main() started so far
  pc,                            \* position of the current run in main()
  ledger_store,                  \* the ledger object in the external store
  outrage_users_info,            \* candidate table of the run (user_id column)
  df_users_DMed,                 \* in-memory ledger table
  user_ids_previously_messaged,  \* set built once from the loaded ledger
  num_users_previously_DMed,
  number_new_friend_requests,
  i,                             \* loop index (0-based, as range() gives it)
  can_DM,
  summary_printed,
  \* history variables (observations of what the run did)
  loaded,                        \* ledger entries read at run start
  sent_total,                    \* per user: successful sends, all runs (those the
                                 \* initial ledger records included; counted up to 2)
  sent_run,                      \* users successfully messaged in this run, in order
  dm_failed_run,                 \* users whose DM attempt raised in this run
  fr_ok_run,                     \* users whose fallback friend request succeeded in this run
  dm_attempt_run,                \* users for whom send_direct_message was called in this run
  prev_batch,                    \* candidate table of the previous run
  prev_status,                   \* how the previous run ended
  prev_sent,                     \* users successfully messaged in the previous run
  prev_failed,                   \* users whose DM attempt raised in the previous run
  deferred,                      \* row index + 1 of a rate-limited candidate not yet retried
  dm_raised,                     \* what send_direct_message raised for the candidate in fallback
  lookup_run,                    \* users for whom show_friendship was called in this run
  friend_json,                   \* friendship object of the last status check that returned
  last_pause,                    \* platform error behind the last 15 minute sleep
  num_pauses,                    \* 15 minute sleeps of this run
  data,                          \* the labelled tweets read in Part I
  candidates,                    \* rows of outrage_users_info built from data
  \* stream.py
  stream_pc,                     \* position of stream_tweets and of the stream
  tweet_count,                   \* global tweet_count
  max_num_tweets,                \* global max_num_tweets
  new_tweets,                    \* records appended to new_tweets.json
  listener_ret,                  \* what the last call of the listener returned
  last_call,                     \* the callback called last, with its argument
  \* clean.py
  parse_pc,                      \* position of standard_parse
  tweets,                        \* raw tweets given to standard_parse
  parse_data,                    \* the dict of columns after the loop
  df_parsed,                     \* the table df that standard_parse returns
  \* receive_DMs.py
  recv_pc,                       \* position of main() of receive_DMs
  own_id,
  messages_list,                 \* what list_direct_messages returned
  messages_from_users            \* the exported table

vars == << run, pc, ledger_store, outrage_users_info, df_users_DMed,
           user_ids_previously_messaged, num_users_previously_DMed,
           number_new_friend_requests, i, can_DM, summary_printed,
           loaded, sent_total, sent_run, dm_failed_run, fr_ok_run,
           dm_attempt_run, prev_batch, prev_status, prev_sent, prev_failed,
           deferred, dm_raised, lookup_run, friend_json, last_pause,
           num_pauses, data, candidates,
           stream_pc, tweet_count, max_num_tweets, new_tweets, listener_ret,
           last_call, parse_pc, tweets, parse_data, df_parsed,
           recv_pc, own_id, messages_list, messages_from_users >>

\* variables of the status check and of the candidate selection
resVars == << lookup_run, friend_json, last_pause, num_pauses >>
selVars == << data, candidates >>

\* variables of the other scripts of the pipeline
streamVars == << stream_pc, tweet_count, max_num_tweets, new_tweets,
                 listener_ret, last_call >>
cleanVars  == << parse_pc, tweets, parse_data, df_parsed >>
recvVars   == << recv_pc, own_id, messages_list, messages_from_users >>

\* no callback of the listener has been called
NoCall == [ name |-> "none", status |-> 0, raised |-> FALSE ]

\* stream.py, clean.py, receive_DMs.py have not started
StreamNotStarted ==
  /\ stream_pc = "off"
  /\ tweet_count = 0
  /\ max_num_tweets = 0
  /\ new_tweets = << >>
  /\ listener_ret = "none"
  /\ last_call = NoCall

CleanNotStarted ==
  /\ parse_pc = "off"
  /\ tweets = << >>
  /\ parse_data = << >>
  /\ df_parsed = << >>

RecvNotStarted ==
  /\ recv_pc = "off"
  /\ own_id = 0
  /\ messages_list = << >>
  /\ messages_from_users = << >>

OthersNotStarted ==
  /\ StreamNotStarted
  /\ CleanNotStarted
  /\ RecvNotStarted

\* ------------------------------------------------------------- helpers
NaN == -1

\* user_screen_name of a user in `data`
ScreenName(u) == << "name", u >>

\* df.loc[:, ['user_names', 'user_ids', 'date_time_messaged']]
SelectColumns(df) ==
  [ k \in 1..Len(df) |->
      [ user_names |-> df[k].user_names, user_ids |-> df[k].user_ids,
        date_time_messaged |-> df[k].date_time_messaged ] ]

\* df.to_csv(file) of a table of these three columns: one line per row,
\* the 0-based index first, then the columns in order
to_csv(df) ==
  [ k \in 1..Len(df) |->
      << k - 1, df[k].user_names, df[k].user_ids, df[k].date_time_messaged >> ]

\* read_csv taking the index column of the file for the user ids
read_csv_IndexAsIds(file) ==
  [ k \in 1..Len(file) |->
      [ Unnamed0 |-> file[k][1], user_names |-> file[k][2],
        user_ids |-> file[k][1], date_time_messaged |-> file[k][4] ] ]

\* pd.read_csv(file): the index column comes back as the column 'Unnamed: 0'
read_csv(file) ==
  [ k \in 1..Len(file) |->
      [ Unnamed0 |-> file[k][1], user_names |-> file[k][2],
        user_ids |-> file[k][3], date_time_messaged |-> file[k][4] ] ]

\* set(df['user_ids'])
UserIdSet(df) == { df[k].user_ids : k \in 1..Len(df) }

\* append that writes over the last row of the table
AppendRow_Overwrite(df, u, now) ==
  IF Len(df) = 0
    THEN << [ Unnamed0 |-> NaN, user_names |-> ScreenName(u), user_ids |-> u,
              date_time_messaged |-> now ] >>
    ELSE [ df EXCEPT ![Len(df)] =
             [ Unnamed0 |-> NaN, user_names |-> ScreenName(u), user_ids |-> u,
               date_time_messaged |-> now ] ]

\* append whose result is thrown away (df.append returns a new table)
AppendRow_Dropped(df, u, now) == df

\* df.append(values, ignore_index = True): the new row has no 'Unnamed: 0'
AppendRow(df, u, now) ==
  Append(df, [ Unnamed0 |-> NaN, user_names |-> ScreenName(u), user_ids |-> u,
               date_time_messaged |-> now ])

\* candidate tables: every sequence of user ids up to MaxBatch rows (a user
\* owns one row per row it has in `data`)
Batches == UNION { [1..n -> Users] : n \in 0..MaxBatch }

RECURSIVE Perms(_)
Perms(S) ==
  IF S = {} THEN { << >> }
  ELSE UNION { { << u >> \o p : p \in Perms(S \ {u}) } : u \in S }

\* ledgers written by earlier runs: no user twice
InitialLedgerRows(p) ==
  [ k \in 1..Len(p) |->
      [ user_names |-> ScreenName(p[k]), user_ids |-> p[k],
        date_time_messaged |-> 0 ] ]

InitialStores ==
  { [ present |-> FALSE, rows |-> << >> ] } \cup
  { [ present |-> TRUE, rows |-> to_csv(InitialLedgerRows(p)) ] :
      p \in UNION { Perms(S) : S \in SUBSET Users } }

CurrentUser == outrage_users_info[i + 1]

\* no friendship object has been fetched
NoFriendship == [ followed_by |-> FALSE, following |-> FALSE, can_dm |-> FALSE ]

\* what the platform calls fail with
DMErrors == { "RateLimited", "Unavailable", "OtherTransient" }

Bump(f, u) == [ f EXCEPT ![u] = IF @ < 2 THEN @ + 1 ELSE @ ]

\* ------------------------------------------------------------- Init
Init ==
  /\ run = 0
  /\ pc = "idle"
  /\ ledger_store \in InitialStores
  /\ outrage_users_info = << >>
  /\ df_users_DMed = << >>
  /\ user_ids_previously_messaged = {}
  /\ num_users_previously_DMed = 0
  /\ number_new_friend_requests = 0
  /\ i = 0
  /\ can_DM = FALSE
  /\ summary_printed = FALSE
  /\ loaded = << >>
  /\ sent_total = [ u \in Users |->
                      IF u \in UserIdSet(read_csv(ledger_store.rows)) THEN 1 ELSE 0 ]
  /\ sent_run = << >>
  /\ dm_failed_run = {}
  /\ fr_ok_run = {}
  /\ dm_attempt_run = {}
  /\ prev_batch = << >>
  /\ prev_status = "none"
  /\ prev_sent = {}
  /\ prev_failed = {}
  /\ deferred = 0
  /\ dm_raised = "none"
  /\ lookup_run = {}
  /\ friend_json = NoFriendship
  /\ last_pause = "none"
  /\ num_pauses = 0
  /\ data = << >>
  /\ candidates = << >>
  /\ OthersNotStarted

\* ------------------------------------------------------------- actions

\* main(), Part I: the candidate table of this run is built
StartRun ==
  /\ pc \in { "idle", "done", "aborted", "crashed", "interrupted" }
  /\ run < MaxRuns
  /\ \E b \in Batches :
       /\ outrage_users_info' = b
       /\ prev_batch' = outrage_users_info
  /\ run' = run + 1
  /\ pc' = "import"
  /\ prev_status' = pc
  /\ prev_sent' = { sent_run[k] : k \in 1..Len(sent_run) }
  /\ prev_failed' = dm_failed_run
  /\ df_users_DMed' = << >>
  /\ user_ids_previously_messaged' = {}
  /\ num_users_previously_DMed' = 0
  /\ number_new_friend_requests' = 0
  /\ i' = 0
  /\ can_DM' = FALSE
  /\ summary_printed' = FALSE
  /\ loaded' = << >>
  /\ sent_run' = << >>
  /\ dm_failed_run' = {}
  /\ fr_ok_run' = {}
  /\ dm_attempt_run' = {}
  /\ deferred' = 0
  /\ dm_raised' = "none"
  /\ lookup_run' = {}
  /\ friend_json' = NoFriendship
  /\ last_pause' = "none"
  /\ num_pauses' = 0
  /\ UNCHANGED << ledger_store, sent_total >>
  /\ UNCHANGED selVars
  /\ UNCHANGED << streamVars, cleanVars, recvVars >>

\* main(), import of the list of users DMed before
ImportLedger ==
  /\ pc = "import"
  /\ IF ledger_store.present
       THEN /\ df_users_DMed' = read_csv(ledger_store.rows)
            /\ loaded' = SelectColumns(read_csv(ledger_store.rows))
            /\ user_ids_previously_messaged' = UserIdSet(read_csv(ledger_store.rows))
            /\ pc' = "loop"
       ELSE \* nothing was downloaded: pd.read_csv raises FileNotFoundError
            /\ pc' = "aborted"
            /\ UNCHANGED << df_users_DMed, loaded, user_ids_previously_messaged >>
  /\ num_users_previously_DMed' = 0
  /\ number_new_friend_requests' = 0
  /\ UNCHANGED << run, ledger_store, outrage_users_info, i, can_DM,
                  summary_printed, sent_total, sent_run, dm_failed_run,
                  fr_ok_run, dm_attempt_run, prev_batch, prev_status,
                  prev_sent, prev_failed, deferred, dm_raised >>
  /\ UNCHANGED << resVars, selVars >>
  /\ UNCHANGED << streamVars, cleanVars, recvVars >>

\* status check that skips a user of the ledger without counting the row
CheckStatus_NoCount ==
  /\ pc = "loop"
  /\ i < Len(outrage_users_info)
  /\ IF CurrentUser \notin user_ids_previously_messaged
       THEN /\ can_DM' = TRUE
            /\ pc' = "send"
            /\ UNCHANGED << i, num_users_previously_DMed >>
       ELSE /\ num_users_previously_DMed' = num_users_previously_DMed
            /\ i' = i + 1
            /\ UNCHANGED << can_DM, pc >>
  /\ deferred' = 0
  /\ UNCHANGED << run, ledger_store, outrage_users_info, df_users_DMed,
                  user_ids_previously_messaged, number_new_friend_requests,
                  summary_printed, loaded, sent_total, sent_run,
                  dm_failed_run, fr_ok_run, dm_attempt_run, prev_batch,
                  prev_status, prev_sent, prev_failed, dm_raised >>
  /\ UNCHANGED << resVars, selVars >>
  /\ UNCHANGED << streamVars, cleanVars, recvVars >>

\* the (stubbed) friend/DM status check at the top of an iteration
CheckStatus ==
  /\ pc = "loop"
  /\ i < Len(outrage_users_info)
  /\ IF CurrentUser \notin user_ids_previously_messaged
       THEN /\ can_DM' = TRUE
            /\ pc' = "send"
            /\ UNCHANGED << i, num_users_previously_DMed >>
       ELSE /\ num_users_previously_DMed' = num_users_previously_DMed + 1
            /\ i' = i + 1
            /\ UNCHANGED << can_DM, pc >>
  /\ deferred' = 0
  /\ UNCHANGED << run, ledger_store, outrage_users_info, df_users_DMed,
                  user_ids_previously_messaged, number_new_friend_requests,
                  summary_printed, loaded, sent_total, sent_run,
                  dm_failed_run, fr_ok_run, dm_attempt_run, prev_batch,
                  prev_status, prev_sent, prev_failed, dm_raised >>
  /\ UNCHANGED << resVars, selVars >>
  /\ UNCHANGED << streamVars, cleanVars, recvVars >>

\* the guard without the look at the table as it is now
MayDM_SnapshotOnly(u) ==
  /\ can_DM
  /\ u \notin user_ids_previously_messaged

\* the guard of the DM branch
MayDM(u) ==
  /\ can_DM
  /\ u \notin user_ids_previously_messaged
  /\ u \notin UserIdSet(df_users_DMed)

\* the DM branch of an iteration; ok is the outcome of send_direct_message
SendDM(ok) ==
  /\ pc = "send"
  /\ IF MayDM(CurrentUser)
       THEN /\ dm_attempt_run' = dm_attempt_run \cup { CurrentUser }
            /\ num_users_previously_DMed' = num_users_previously_DMed
            /\ IF ok
                 THEN /\ df_users_DMed' = AppendRow(df_users_DMed, CurrentUser, run)
                      /\ sent_total' = Bump(sent_total, CurrentUser)
                      /\ sent_run' = Append(sent_run, CurrentUser)
                      /\ i' = i + 1
                      /\ pc' = "loop"
                      /\ UNCHANGED << dm_failed_run, dm_raised >>
                 ELSE \* whatever the call raises ends in the same handler
                      /\ dm_failed_run' = dm_failed_run \cup { CurrentUser }
                      /\ \E e \in DMErrors : dm_raised' = e
                      /\ pc' = "fallback"
                      /\ UNCHANGED << df_users_DMed, sent_total, sent_run, i >>
       ELSE /\ num_users_previously_DMed' =
                 IF CurrentUser \in user_ids_previously_messaged
                   THEN num_users_previously_DMed + 1
                   ELSE num_users_previously_DMed
            /\ i' = i + 1
            /\ pc' = "loop"
            /\ UNCHANGED << df_users_DMed, sent_total, sent_run,
                            dm_failed_run, dm_attempt_run, dm_raised >>
  /\ UNCHANGED << run, ledger_store, outrage_users_info,
                  user_ids_previously_messaged, number_new_friend_requests,
                  can_DM, summary_printed, loaded, fr_ok_run, prev_batch,
                  prev_status, prev_sent, prev_failed, deferred >>
  /\ UNCHANGED << resVars, selVars >>
  /\ UNCHANGED << streamVars, cleanVars, recvVars >>

\* fallback that enters the user in the ledger when the friend request succeeds
Fallback_Records(ok) ==
  /\ pc = "fallback"
  /\ IF ok
       THEN /\ number_new_friend_requests' = number_new_friend_requests + 1
            /\ fr_ok_run' = fr_ok_run \cup { CurrentUser }
            /\ df_users_DMed' = AppendRow(df_users_DMed, CurrentUser, run)
       ELSE UNCHANGED << number_new_friend_requests, fr_ok_run, df_users_DMed >>
  /\ i' = i + 1
  /\ pc' = "loop"
  /\ dm_raised' = "none"
  /\ UNCHANGED << resVars, selVars >>
  /\ UNCHANGED << streamVars, cleanVars, recvVars >>
  /\ UNCHANGED << run, ledger_store, outrage_users_info,
                  user_ids_previously_messaged, num_users_previously_DMed,
                  can_DM, summary_printed, loaded, sent_total, sent_run,
                  dm_failed_run, dm_attempt_run, prev_batch, prev_status,
                  prev_sent, prev_failed, deferred >>

\* fallback without the handler of the friend request: a request that
\* raises ends the run
Fallback_Aborts(ok) ==
  /\ pc = "fallback"
  /\ IF ok
       THEN /\ number_new_friend_requests' = number_new_friend_requests + 1
            /\ fr_ok_run' = fr_ok_run \cup { CurrentUser }
            /\ i' = i + 1
            /\ pc' = "loop"
       ELSE /\ pc' = "aborted"
            /\ UNCHANGED << number_new_friend_requests, fr_ok_run, i >>
  /\ dm_raised' = "none"
  /\ UNCHANGED << resVars, selVars >>
  /\ UNCHANGED << streamVars, cleanVars, recvVars >>
  /\ UNCHANGED << run, ledger_store, outrage_users_info, df_users_DMed,
                  user_ids_previously_messaged, num_users_previously_DMed,
                  can_DM, summary_printed, loaded, sent_total, sent_run,
                  dm_failed_run, dm_attempt_run, prev_batch, prev_status,
                  prev_sent, prev_failed, deferred >>

\* the friend request sent when the DM raised; ok is the outcome of create_friendship
Fallback(ok) ==
  /\ pc = "fallback"
  /\ IF ok
       THEN /\ number_new_friend_requests' = number_new_friend_requests + 1
            /\ fr_ok_run' = fr_ok_run \cup { CurrentUser }
       ELSE UNCHANGED << number_new_friend_requests, fr_ok_run >>
  /\ i' = i + 1
  /\ pc' = "loop"
  /\ dm_raised' = "none"
  /\ UNCHANGED << resVars, selVars >>
  /\ UNCHANGED << streamVars, cleanVars, recvVars >>
  /\ UNCHANGED << run, ledger_store, outrage_users_info, df_users_DMed,
                  user_ids_previously_messaged, num_users_previously_DMed,
                  can_DM, summary_printed, loaded, sent_total, sent_run,
                  dm_failed_run, dm_attempt_run, prev_batch, prev_status,
                  prev_sent, prev_failed, deferred >>

\* export that writes the table as it was loaded
Export_Stale ==
  /\ pc = "loop"
  /\ i = Len(outrage_users_info)
  /\ summary_printed' = TRUE
  /\ df_users_DMed' = SelectColumns(df_users_DMed)
  /\ ledger_store' = [ present |-> TRUE, rows |-> to_csv(loaded) ]
  /\ pc' = "done"
  /\ UNCHANGED << dm_raised, resVars, selVars >>
  /\ UNCHANGED << streamVars, cleanVars, recvVars >>
  /\ UNCHANGED << run, outrage_users_info, user_ids_previously_messaged,
                  num_users_previously_DMed, number_new_friend_requests, i,
                  can_DM, loaded, sent_total, sent_run, dm_failed_run,
                  fr_ok_run, dm_attempt_run, prev_batch, prev_status,
                  prev_sent, prev_failed, deferred >>

\* end of the loop: summary, export of the ledger and upload
Export ==
  /\ pc = "loop"
  /\ i = Len(outrage_users_info)
  /\ summary_printed' = TRUE
  /\ df_users_DMed' = SelectColumns(df_users_DMed)
  /\ ledger_store' = [ present |-> TRUE, rows |-> to_csv(SelectColumns(df_users_DMed)) ]
  /\ pc' = "done"
  /\ UNCHANGED << dm_raised, resVars, selVars >>
  /\ UNCHANGED << streamVars, cleanVars, recvVars >>
  /\ UNCHANGED << run, outrage_users_info, user_ids_previously_messaged,
                  num_users_previously_DMed, number_new_friend_requests, i,
                  can_DM, loaded, sent_total, sent_run, dm_failed_run,
                  fr_ok_run, dm_attempt_run, prev_batch, prev_status,
                  prev_sent, prev_failed, deferred >>

Next ==
  \/ StartRun
  \/ ImportLedger
  \/ CheckStatus
  \/ \E ok \in BOOLEAN : SendDM(ok)
  \/ \E ok \in BOOLEAN : Fallback(ok)
  \/ Export

Spec == Init /\ [][Next]_vars

\* ------------------------------------------------- abnormal termination

\* the process is killed while a candidate is being processed
Crash ==
  /\ pc \in { "send", "fallback" }
  /\ pc' = "crashed"
  /\ UNCHANGED << dm_raised, resVars, selVars >>
  /\ UNCHANGED << streamVars, cleanVars, recvVars >>
  /\ UNCHANGED << run, ledger_store, outrage_users_info, df_users_DMed,
                  user_ids_previously_messaged, num_users_previously_DMed,
                  number_new_friend_requests, i, can_DM, summary_printed,
                  loaded, sent_total, sent_run, dm_failed_run, fr_ok_run,
                  dm_attempt_run, prev_batch, prev_status, prev_sent,
                  prev_failed, deferred >>

\* the operator interrupts the run between two candidates: KeyboardInterrupt
\* is no Exception, no handler of main() catches it and main() has no finally
Interrupt ==
  /\ pc = "loop"
  /\ pc' = "interrupted"
  /\ UNCHANGED << dm_raised, resVars, selVars >>
  /\ UNCHANGED << streamVars, cleanVars, recvVars >>
  /\ UNCHANGED << run, ledger_store, outrage_users_info, df_users_DMed,
                  user_ids_previously_messaged, num_users_previously_DMed,
                  number_new_friend_requests, i, can_DM, summary_printed,
                  loaded, sent_total, sent_run, dm_failed_run, fr_ok_run,
                  dm_attempt_run, prev_batch, prev_status, prev_sent,
                  prev_failed, deferred >>

NextCrash ==
  \/ StartRun
  \/ ImportLedger
  \/ CheckStatus
  \/ \E ok \in BOOLEAN : SendDM(ok)
  \/ \E ok \in BOOLEAN : Fallback(ok)
  \/ Export
  \/ Crash
  \/ Interrupt

SpecCrash == Init /\ [][NextCrash]_vars

\* ------------------------------------- the loop with the status check live

ApiOutcomes == { "ok", "TweepError", "Exception" }

\* platform failures that tweepy reports as TweepError
TweepErrorCauses == { "RateLimited", "Unavailable" }

\* can_DM taken from the flag of the platform alone
ResolveCanDM_FlagFirst(followed_by, following, can_dm) == can_dm

\* can_DM as see_friend_and_DM_status computes it from the friendship object
ResolveCanDM(followed_by, following, can_dm) ==
  IF followed_by /\ following THEN TRUE ELSE can_dm

\* what see_friend_and_DM_status raises into main(), or "ok";
\* sf is the outcome of show_friendship, gu the outcome of get_user
ResolverRaises(sf, gu, followed_by) ==
  IF sf = "TweepError" THEN "TweepError"
  ELSE IF sf = "Exception" THEN "Exception"   \* None is returned, unpacking raises
  ELSE IF ~followed_by THEN gu
  ELSE "ok"

\* status check that asks the platform before it looks at the ledger
ResolveStatus_LookupFirst(sf, gu, followed_by, following, can_dm) ==
  /\ pc = "loop"
  /\ i < Len(outrage_users_info)
  /\ IF CurrentUser \notin user_ids_previously_messaged
       THEN /\ lookup_run' = lookup_run \cup { CurrentUser }
            /\ friend_json' =
                 IF sf = "ok"
                   THEN [ followed_by |-> followed_by, following |-> following,
                          can_dm |-> can_dm ]
                   ELSE friend_json
            /\ IF ResolverRaises(sf, gu, followed_by) = "ok"
                 THEN /\ can_DM' = ResolveCanDM(followed_by, following, can_dm)
                      /\ pc' = "send"
                      /\ deferred' = 0
                      /\ last_pause' = "none"
                      /\ UNCHANGED << i, num_users_previously_DMed, num_pauses >>
                 ELSE \* both handlers end in continue; the first sleeps 15 minutes
                      /\ deferred' = IF ResolverRaises(sf, gu, followed_by) = "TweepError"
                                       THEN i + 1 ELSE 0
                      /\ IF ResolverRaises(sf, gu, followed_by) = "TweepError"
                           THEN /\ \E cause \in TweepErrorCauses : last_pause' = cause
                                /\ num_pauses' = num_pauses + 1
                           ELSE /\ last_pause' = "none"
                                /\ num_pauses' = num_pauses
                      /\ i' = i + 1
                      /\ UNCHANGED << can_DM, pc, num_users_previously_DMed >>
       ELSE /\ num_users_previously_DMed' = num_users_previously_DMed + 1
            /\ i' = i + 1
            /\ deferred' = 0
            /\ last_pause' = "none"
            /\ lookup_run' = lookup_run \cup { CurrentUser }
            /\ UNCHANGED << can_DM, pc, friend_json, num_pauses >>
  /\ UNCHANGED << dm_raised, selVars >>
  /\ UNCHANGED << streamVars, cleanVars, recvVars >>
  /\ UNCHANGED << run, ledger_store, outrage_users_info, df_users_DMed,
                  user_ids_previously_messaged, number_new_friend_requests,
                  summary_printed, loaded, sent_total, sent_run,
                  dm_failed_run, fr_ok_run, dm_attempt_run, prev_batch,
                  prev_status, prev_sent, prev_failed >>

\* status check whose rate-limit handler takes the same candidate again
\* after the sleep
ResolveStatus_RetrySame(sf, gu, followed_by, following, can_dm) ==
  /\ pc = "loop"
  /\ i < Len(outrage_users_info)
  /\ IF CurrentUser \notin user_ids_previously_messaged
       THEN /\ lookup_run' = lookup_run \cup { CurrentUser }
            /\ friend_json' =
                 IF sf = "ok"
                   THEN [ followed_by |-> followed_by, following |-> following,
                          can_dm |-> can_dm ]
                   ELSE friend_json
            /\ IF ResolverRaises(sf, gu, followed_by) = "ok"
                 THEN /\ can_DM' = ResolveCanDM(followed_by, following, can_dm)
                      /\ pc' = "send"
                      /\ deferred' = 0
                      /\ last_pause' = "none"
                      /\ UNCHANGED << i, num_users_previously_DMed, num_pauses >>
                 ELSE /\ deferred' = IF ResolverRaises(sf, gu, followed_by) = "TweepError"
                                       THEN i + 1 ELSE 0
                      /\ IF ResolverRaises(sf, gu, followed_by) = "TweepError"
                           THEN /\ \E cause \in TweepErrorCauses : last_pause' = cause
                                /\ num_pauses' = IF num_pauses <= MaxBatch
                                                   THEN num_pauses + 1 ELSE num_pauses
                                /\ i' = i
                           ELSE /\ last_pause' = "none"
                                /\ num_pauses' = num_pauses
                                /\ i' = i + 1
                      /\ UNCHANGED << can_DM, pc, num_users_previously_DMed >>
       ELSE /\ num_users_previously_DMed' = num_users_previously_DMed + 1
            /\ i' = i + 1
            /\ deferred' = 0
            /\ last_pause' = "none"
            /\ UNCHANGED << can_DM, pc, lookup_run, friend_json, num_pauses >>
  /\ UNCHANGED << dm_raised, selVars >>
  /\ UNCHANGED << streamVars, cleanVars, recvVars >>
  /\ UNCHANGED << run, ledger_store, outrage_users_info, df_users_DMed,
                  user_ids_previously_messaged, number_new_friend_requests,
                  summary_printed, loaded, sent_total, sent_run,
                  dm_failed_run, fr_ok_run, dm_attempt_run, prev_batch,
                  prev_status, prev_sent, prev_failed >>

\* the top of an iteration with the call of see_friend_and_DM_status in
\* place of the constants that main() assigns
ResolveStatus(sf, gu, followed_by, following, can_dm) ==
  /\ pc = "loop"
  /\ i < Len(outrage_users_info)
  /\ IF CurrentUser \notin user_ids_previously_messaged
       THEN /\ lookup_run' = lookup_run \cup { CurrentUser }
            /\ friend_json' =
                 IF sf = "ok"
                   THEN [ followed_by |-> followed_by, following |-> following,
                          can_dm |-> can_dm ]
                   ELSE friend_json
            /\ IF ResolverRaises(sf, gu, followed_by) = "ok"
                 THEN /\ can_DM' = ResolveCanDM(followed_by, following, can_dm)
                      /\ pc' = "send"
                      /\ deferred' = 0
                      /\ last_pause' = "none"
                      /\ UNCHANGED << i, num_users_previously_DMed, num_pauses >>
                 ELSE \* both handlers end in continue; the first sleeps 15 minutes
                      /\ deferred' = IF ResolverRaises(sf, gu, followed_by) = "TweepError"
                                       THEN i + 1 ELSE 0
                      /\ IF ResolverRaises(sf, gu, followed_by) = "TweepError"
                           THEN /\ \E cause \in TweepErrorCauses : last_pause' = cause
                                /\ num_pauses' = num_pauses + 1
                           ELSE /\ last_pause' = "none"
                                /\ num_pauses' = num_pauses
                      /\ i' = i + 1
                      /\ UNCHANGED << can_DM, pc, num_users_previously_DMed >>
       ELSE /\ num_users_previously_DMed' = num_users_previously_DMed + 1
            /\ i' = i + 1
            /\ deferred' = 0
            /\ last_pause' = "none"
            /\ UNCHANGED << can_DM, pc, lookup_run, friend_json, num_pauses >>
  /\ UNCHANGED << dm_raised, selVars >>
  /\ UNCHANGED << streamVars, cleanVars, recvVars >>
  /\ UNCHANGED << run, ledger_store, outrage_users_info, df_users_DMed,
                  user_ids_previously_messaged, number_new_friend_requests,
                  summary_printed, loaded, sent_total, sent_run,
                  dm_failed_run, fr_ok_run, dm_attempt_run, prev_batch,
                  prev_status, prev_sent, prev_failed >>

NextResolver ==
  \/ StartRun
  \/ ImportLedger
  \/ \E sf \in ApiOutcomes, gu \in ApiOutcomes, fb \in BOOLEAN, fg \in BOOLEAN,
        cd \in BOOLEAN : ResolveStatus(sf, gu, fb, fg, cd)
  \/ \E ok \in BOOLEAN : SendDM(ok)
  \/ \E ok \in BOOLEAN : Fallback(ok)
  \/ Export

SpecResolver == Init /\ [][NextResolver]_vars

\* ------------------------------------- one run with the status check live

\* the first run of main()
FirstRun == run = 0 /\ StartRun

NextResolverRun ==
  \/ FirstRun
  \/ ImportLedger
  \/ \E sf \in ApiOutcomes, gu \in ApiOutcomes, fb \in BOOLEAN, fg \in BOOLEAN,
        cd \in BOOLEAN : ResolveStatus(sf, gu, fb, fg, cd)
  \/ \E ok \in BOOLEAN : SendDM(ok)
  \/ \E ok \in BOOLEAN : Fallback(ok)
  \/ Export

SpecResolverRun == Init /\ [][NextResolverRun]_vars

\* main() is one sequential process: every platform call returns or raises
\* and time.sleep returns, so the run always takes its next step
SpecResolverRunFair == SpecResolverRun /\ WF_vars(NextResolverRun)

\* --------------------------------------------- one run of main() as it is

NextRun ==
  \/ FirstRun
  \/ ImportLedger
  \/ CheckStatus
  \/ \E ok \in BOOLEAN : SendDM(ok)
  \/ \E ok \in BOOLEAN : Fallback(ok)
  \/ Export

SpecRun == Init /\ [][NextRun]_vars

\* ------------------------------------------- Part I: candidate selection

MaxPosts == 2
MaxTime  == 2

\* gru_prob in hundredths; the filter of main() keeps gru_prob > 0.95
Threshold == 95
Scores == { Threshold - 1, Threshold, Threshold + 1 }

\* the labelled tweets of n rows: rows in any order, tweet ids all different
DataSets(n) ==
  { [ k \in 1..n |->
        [ user_id |-> us[k], tweet_id |-> ids[k],
          created_at |-> ts[k], gru_prob |-> ps[k] ] ] :
      us \in [1..n -> Users], ids \in Perms(1..n),
      ts \in [1..n -> 1..MaxTime], ps \in [1..n -> Scores] }

\* data.loc[data['user_id'] == user_id, :]
UserRows(d, u) == SelectSeq(d, LAMBDA r : r.user_id = u)

\* np.argmin of the created_at column: the first position of the minimum
ArgMinCreated(rows) ==
  CHOOSE k \in 1..Len(rows) :
    /\ \A j \in 1..Len(rows) : rows[j].created_at >= rows[k].created_at
    /\ \A j \in 1..(k - 1) : rows[j].created_at > rows[k].created_at

\* get_tweet_info: the tweet of the user, the earliest one when there are several
get_tweet_info(d, u) ==
  IF Len(UserRows(d, u)) > 1
    THEN UserRows(d, u)[ArgMinCreated(UserRows(d, u))]
    ELSE UserRows(d, u)[1]

\* outrage_users_info: one row per row of data, then the rows over the threshold
OutrageUsersInfo(d) ==
  SelectSeq([ k \in 1..Len(d) |-> get_tweet_info(d, d[k].user_id) ],
            LAMBDA r : r.gru_prob > Threshold)

InitSelector ==
  /\ run = 0
  /\ pc = "select"
  /\ ledger_store = [ present |-> FALSE, rows |-> << >> ]
  /\ outrage_users_info = << >>
  /\ df_users_DMed = << >>
  /\ user_ids_previously_messaged = {}
  /\ num_users_previously_DMed = 0
  /\ number_new_friend_requests = 0
  /\ i = 0
  /\ can_DM = FALSE
  /\ summary_printed = FALSE
  /\ loaded = << >>
  /\ sent_total = [ u \in Users |-> 0 ]
  /\ sent_run = << >>
  /\ dm_failed_run = {}
  /\ fr_ok_run = {}
  /\ dm_attempt_run = {}
  /\ prev_batch = << >>
  /\ prev_status = "none"
  /\ prev_sent = {}
  /\ prev_failed = {}
  /\ deferred = 0
  /\ dm_raised = "none"
  /\ lookup_run = {}
  /\ friend_json = NoFriendship
  /\ last_pause = "none"
  /\ num_pauses = 0
  /\ \E n \in 0..MaxPosts : data \in DataSets(n)
  /\ candidates = << >>
  /\ OthersNotStarted

\* main(), Part I: the loop over data['user_id'] and the threshold filter
BuildCandidates ==
  /\ pc = "select"
  /\ candidates' = OutrageUsersInfo(data)
  /\ outrage_users_info' =
       [ k \in 1..Len(OutrageUsersInfo(data)) |-> OutrageUsersInfo(data)[k].user_id ]
  /\ pc' = "selected"
  /\ UNCHANGED << run, ledger_store, df_users_DMed,
                  user_ids_previously_messaged, num_users_previously_DMed,
                  number_new_friend_requests, i, can_DM, summary_printed,
                  loaded, sent_total, sent_run, dm_failed_run, fr_ok_run,
                  dm_attempt_run, prev_batch, prev_status, prev_sent,
                  prev_failed, deferred, dm_raised, resVars, data >>
  /\ UNCHANGED << streamVars, cleanVars, recvVars >>

NextSelector == BuildCandidates

SpecSelector == InitSelector /\ [][NextSelector]_vars

\* send_DMs.py has not started
DispatchNotStarted ==
  /\ run = 0
  /\ pc = "off"
  /\ ledger_store = [ present |-> FALSE, rows |-> << >> ]
  /\ outrage_users_info = << >>
  /\ df_users_DMed = << >>
  /\ user_ids_previously_messaged = {}
  /\ num_users_previously_DMed = 0
  /\ number_new_friend_requests = 0
  /\ i = 0
  /\ can_DM = FALSE
  /\ summary_printed = FALSE
  /\ loaded = << >>
  /\ sent_total = [ u \in Users |-> 0 ]
  /\ sent_run = << >>
  /\ dm_failed_run = {}
  /\ fr_ok_run = {}
  /\ dm_attempt_run = {}
  /\ prev_batch = << >>
  /\ prev_status = "none"
  /\ prev_sent = {}
  /\ prev_failed = {}
  /\ deferred = 0
  /\ dm_raised = "none"
  /\ lookup_run = {}
  /\ friend_json = NoFriendship
  /\ last_pause = "none"
  /\ num_pauses = 0
  /\ data = << >>
  /\ candidates = << >>

\* the variables of send_DMs.py
dispatchVars ==
  << run, pc, ledger_store, outrage_users_info, df_users_DMed,
     user_ids_previously_messaged, num_users_previously_DMed,
     number_new_friend_requests, i, can_DM, summary_printed, loaded,
     sent_total, sent_run, dm_failed_run, fr_ok_run, dm_attempt_run,
     prev_batch, prev_status, prev_sent, prev_failed, deferred, dm_raised,
     resVars, selVars >>

\* ------------------------------------------------ stream.py: the listener

MaxTweets == 2
MaxCalls  == 4

\* the status of the rate limit in on_error
RateLimitStatus == 420

\* HTTP statuses the streaming endpoint answers with
StatusCodes == { RateLimitStatus, 401, 406, 429 }

\* lines of the stream
Payloads == { "a", "b" }

\* the stream goes on unless the callback returned False
StreamAfter(ret) == IF ret = "False" THEN "halted" ELSE "streaming"

InitStream ==
  /\ DispatchNotStarted
  /\ CleanNotStarted
  /\ RecvNotStarted
  /\ stream_pc = "main"
  /\ tweet_count = 0
  /\ max_num_tweets = 0
  /\ new_tweets = << >>
  /\ listener_ret = "none"
  /\ last_call = NoCall

\* stream_tweets: the counters are set and the stream is opened
stream_tweets(max_tweets) ==
  /\ stream_pc = "main"
  /\ tweet_count' = 0
  /\ max_num_tweets' = max_tweets
  /\ stream_pc' = "streaming"
  /\ UNCHANGED << new_tweets, listener_ret, last_call >>
  /\ UNCHANGED << dispatchVars, cleanVars, recvVars >>

\* on_data whose call of Stream.disconnect returns, so that the write follows
on_data_DisconnectReturns(d, write_ok) ==
  /\ stream_pc = "streaming"
  /\ tweet_count < MaxCalls
  /\ tweet_count' = tweet_count + 1
  /\ IF write_ok
       THEN /\ new_tweets' = Append(new_tweets, d)
            /\ last_call' = [ name |-> "on_data", status |-> 0, raised |-> FALSE ]
       ELSE /\ new_tweets' = new_tweets
            /\ last_call' = [ name |-> "on_data", status |-> 0, raised |-> TRUE ]
  /\ listener_ret' = "True"
  /\ stream_pc' = StreamAfter("True")
  /\ UNCHANGED max_num_tweets
  /\ UNCHANGED << dispatchVars, cleanVars, recvVars >>

\* Listener.on_data; write_ok is whether open() and f.write() go through.
\* Over the maximum, Stream.disconnect(self) is called on the listener, which
\* has no attribute 'running': AttributeError, caught by the handler of
\* on_data, and the write is not reached
on_data(d, write_ok) ==
  /\ stream_pc = "streaming"
  /\ tweet_count < MaxCalls
  /\ tweet_count' = tweet_count + 1
  /\ IF tweet_count + 1 <= max_num_tweets /\ write_ok
       THEN /\ new_tweets' = Append(new_tweets, d)
            /\ last_call' = [ name |-> "on_data", status |-> 0, raised |-> FALSE ]
       ELSE /\ new_tweets' = new_tweets
            /\ last_call' = [ name |-> "on_data", status |-> 0, raised |-> TRUE ]
  /\ listener_ret' = "True"
  /\ stream_pc' = StreamAfter("True")
  /\ UNCHANGED max_num_tweets
  /\ UNCHANGED << dispatchVars, cleanVars, recvVars >>

\* on_error that asks for a halt whatever the status is
on_error_HaltsAlways(status) ==
  /\ stream_pc = "streaming"
  /\ listener_ret' = "False"
  /\ last_call' = [ name |-> "on_error", status |-> status, raised |-> FALSE ]
  /\ stream_pc' = StreamAfter("False")
  /\ UNCHANGED << tweet_count, max_num_tweets, new_tweets >>
  /\ UNCHANGED << dispatchVars, cleanVars, recvVars >>

\* Listener.on_error: False for the rate limit, otherwise the function ends
\* without a return statement
on_error(status) ==
  /\ stream_pc = "streaming"
  /\ listener_ret' = IF status = RateLimitStatus THEN "False" ELSE "None"
  /\ last_call' = [ name |-> "on_error", status |-> status, raised |-> FALSE ]
  /\ stream_pc' = StreamAfter(IF status = RateLimitStatus THEN "False" ELSE "None")
  /\ UNCHANGED << tweet_count, max_num_tweets, new_tweets >>
  /\ UNCHANGED << dispatchVars, cleanVars, recvVars >>

NextStream ==
  \/ \E m \in 0..MaxTweets : stream_tweets(m)
  \/ \E d \in Payloads, write_ok \in BOOLEAN : on_data(d, write_ok)
  \/ \E status \in StatusCodes : on_error(status)

SpecStream == InitStream /\ [][NextStream]_vars

\* ------------------------------------------------ clean.py: standard_parse

MaxRaw == 2

TweetIds == 1..MaxRaw

\* tweet['coordinates'] of a tweet with no place (None) and of one with a place
NoCoordinates == [ present |-> FALSE, coordinates |-> << >> ]
Coordinates == [ present |-> TRUE, coordinates |-> << "long", "lat" >> ]

\* 'RT @' in tweet['text'], the text being a sequence of words
RTInText(text) == \E k \in 1..Len(text) : text[k] = "RT @"

\* the tests of lines 101 and 102
Passes(tweet) ==
  /\ tweet.has_text
  /\ ~tweet.retweeted_status
  /\ ~RTInText(tweet.text)
  /\ ~tweet.verified

\* a line of the stream that is no tweet (a limit or delete notice)
Notice ==
  [ has_text |-> FALSE, text |-> << >>, full_text |-> << >>,
    retweeted_status |-> FALSE, verified |-> FALSE, truncated |-> FALSE,
    id_str |-> 0, coordinates |-> NoCoordinates, media |-> FALSE ]

StatusTweets ==
  { [ has_text |-> TRUE, text |-> tx, full_text |-> tx \o << "more" >>,
      retweeted_status |-> r, verified |-> v, truncated |-> tr,
      id_str |-> id, coordinates |-> c, media |-> m ] :
      tx \in { << "t" >>, << "RT @", "t" >> }, r \in BOOLEAN, v \in BOOLEAN,
      tr \in BOOLEAN, id \in TweetIds, c \in { NoCoordinates, Coordinates },
      m \in BOOLEAN }

\* raw tweets: a tweet that the tests drop is read no further, it comes in
\* one shape (not truncated, no place, no media)
RawTweets ==
  { Notice } \cup
  { tweet \in StatusTweets :
      \/ Passes(tweet)
      \/ ~tweet.truncated /\ ~tweet.coordinates.present /\ ~tweet.media }

\* columns of the dict `data`; the columns that line 103 to 133 fill without
\* a condition are tweet_id and user_verified here
ColumnNames ==
  { "text", "tweet_id", "user_verified", "tweet_lat", "tweet_long", "tweet_media" }

EmptyData == [ c \in ColumnNames |-> << >> ]

\* one iteration of the loop of line 100
AppendTweet(d, tweet) ==
  IF tweet.has_text
    THEN IF ~tweet.retweeted_status /\ ~RTInText(tweet.text) /\ ~tweet.verified
           THEN [ d EXCEPT
                    !["text"] = Append(@, IF tweet.truncated
                                            THEN tweet.full_text ELSE tweet.text),
                    !["tweet_id"] = Append(@, tweet.id_str),
                    !["user_verified"] = Append(@, tweet.verified),
                    !["tweet_lat"] = Append(@, IF tweet.coordinates.present
                                                 THEN tweet.coordinates.coordinates[2]
                                                 ELSE "NaN"),
                    !["tweet_long"] = Append(@, IF tweet.coordinates.present
                                                  THEN tweet.coordinates.coordinates[1]
                                                  ELSE "NaN"),
                    !["tweet_media"] = Append(@, IF tweet.media
                                                   THEN << "media_url" >> ELSE "NaN") ]
           ELSE d
    ELSE d

RECURSIVE ParseLoop(_, _)
ParseLoop(ts, d) ==
  IF ts = << >> THEN d ELSE ParseLoop(Tail(ts), AppendTweet(d, Head(ts)))

\* pd.DataFrame(data) raises ValueError unless all columns have one length
SameLength(d) == \A c \in ColumnNames : Len(d[c]) = Len(d["tweet_id"])

\* pd.DataFrame(data): row k holds the k-th value of every column
DataFrame(d) ==
  [ k \in 1..Len(d["tweet_id"]) |-> [ c \in ColumnNames |-> d[c][k] ] ]

\* drop_duplicates that drops nothing
drop_duplicates_KeepAll(rows) == rows

\* df.drop_duplicates(subset = 'tweet_id') and reset_index: the first row of
\* every tweet_id is kept, in the order of the table
drop_duplicates(rows) ==
  LET first == { k \in 1..Len(rows) :
                   \A j \in 1..(k - 1) : rows[j]["tweet_id"] # rows[k]["tweet_id"] }
      nth(n) == CHOOSE k \in first : Cardinality({ j \in first : j <= k }) = n
  IN  [ n \in 1..Cardinality(first) |-> rows[nth(n)] ]

\* df['set_id'] = set_name
WithSetId(rows, set_name) ==
  [ k \in 1..Len(rows) |->
      [ c \in ColumnNames \cup { "set_id" } |->
          IF c = "set_id" THEN set_name ELSE rows[k][c] ] ]

InitClean ==
  /\ DispatchNotStarted
  /\ StreamNotStarted
  /\ RecvNotStarted
  /\ parse_pc = "call"
  /\ \E n \in 0..MaxRaw : tweets \in [1..n -> RawTweets]
  /\ parse_data = << >>
  /\ df_parsed = << >>

standard_parse ==
  /\ parse_pc = "call"
  /\ parse_data' = ParseLoop(tweets, EmptyData)
  /\ IF SameLength(ParseLoop(tweets, EmptyData))
       THEN /\ df_parsed' =
                 WithSetId(drop_duplicates(DataFrame(ParseLoop(tweets, EmptyData))),
                           "set_name")
            /\ parse_pc' = "returned"
       ELSE /\ df_parsed' = << >>
            /\ parse_pc' = "raised"
  /\ UNCHANGED tweets
  /\ UNCHANGED << dispatchVars, streamVars, recvVars >>

NextClean == standard_parse

SpecClean == InitClean /\ [][NextClean]_vars

\* ------------------------------------------------ receive_DMs.py: main()

MaxMsgs == 2

\* sender_id of a message: a string of decimal digits
SenderIds == { << 1 >>, << 2 >>, << 1, 2 >> }

\* ids of the account, as api.me() gives them
OwnIds == { 1, 2, 12 }

MessageTexts == { "a", "b" }

\* int() of a string of decimal digits
RECURSIVE int(_)
int(str) ==
  IF str = << >> THEN 0
  ELSE int(SubSeq(str, 1, Len(str) - 1)) * 10 + str[Len(str)]

\* the loop of lines 193 to 210 that keeps every message
KeepReplies_All(msgs, own) ==
  [ sender_id_arr |-> [ k \in 1..Len(msgs) |-> int(msgs[k].sender_id) ],
    message_arr |-> [ k \in 1..Len(msgs) |-> msgs[k].text ] ]

\* the loop of lines 193 to 210: the two arrays after the last message
RECURSIVE KeepReplies(_, _)
KeepReplies(msgs, own) ==
  IF msgs = << >>
    THEN [ sender_id_arr |-> << >>, message_arr |-> << >> ]
    ELSE LET rest == KeepReplies(SubSeq(msgs, 1, Len(msgs) - 1), own)
             message_json == msgs[Len(msgs)]
         IN  IF int(message_json.sender_id) # own
               THEN [ sender_id_arr |->
                        Append(rest.sender_id_arr, int(message_json.sender_id)),
                      message_arr |-> Append(rest.message_arr, message_json.text) ]
               ELSE rest

\* pd.DataFrame(zip(sender_id_arr, message_arr), columns = ['sender_id', 'message'])
ZipFrame(arrs) ==
  [ k \in 1..(IF Len(arrs.sender_id_arr) <= Len(arrs.message_arr)
                THEN Len(arrs.sender_id_arr) ELSE Len(arrs.message_arr)) |->
      [ sender_id |-> arrs.sender_id_arr[k], message |-> arrs.message_arr[k] ] ]

InitReceive ==
  /\ DispatchNotStarted
  /\ StreamNotStarted
  /\ CleanNotStarted
  /\ recv_pc = "listed"
  /\ own_id \in OwnIds
  /\ \E n \in 0..MaxMsgs :
       messages_list \in [1..n -> [ sender_id : SenderIds, text : MessageTexts ]]
  /\ messages_from_users = << >>

\* main(): the replies are picked and exported
ExportReplies ==
  /\ recv_pc = "listed"
  /\ messages_from_users' = ZipFrame(KeepReplies(messages_list, own_id))
  /\ recv_pc' = "exported"
  /\ UNCHANGED << own_id, messages_list >>
  /\ UNCHANGED << dispatchVars, streamVars, cleanVars >>

NextReceive == ExportReplies

SpecReceive == InitReceive /\ [][NextReceive]_vars

\* ------------------------------------------------------------ properties

RunActive == pc \in { "loop", "send", "fallback", "done" }

SentSet == { sent_run[k] : k \in 1..Len(sent_run) }

StoreUsers == UserIdSet(read_csv(ledger_store.rows))

NoDup(df) ==
  \A j \in 1..Len(df), k \in 1..Len(df) :
     j # k => df[j].user_ids # df[k].user_ids

\* rows of the candidate table whose user is in the ledger read at run start
RowsInLoaded ==
  { k \in 1..Len(outrage_users_info) : outrage_users_info[k] \in UserIdSet(loaded) }

\* the entries added to the in-memory ledger since it was loaded
AddedRows == SubSeq(df_users_DMed, Len(loaded) + 1, Len(df_users_DMed))

\* this run processes the candidate table of the previous run, which ran to its export
Rerun ==
  /\ run >= 2
  /\ prev_status = "done"
  /\ outrage_users_info = prev_batch
  /\ RunActive

\* C1: over sequential runs, each loading the ledger the previous run
\* exported, no user has more than one successful direct message.
C1_AtMostOnce == \A u \in Users : sent_total[u] <= 1

C1_Witness ==
  /\ run >= 2
  /\ pc = "done"
  /\ \E j \in 1..Len(outrage_users_info), k \in 1..Len(outrage_users_info) :
       /\ j < k
       /\ outrage_users_info[j] = outrage_users_info[k]
       /\ outrage_users_info[j] \in prev_sent
       /\ sent_total[outrage_users_info[j]] = 1

\* C2: a user is added to the ledger during a run only if the send to that
\* user returned in this run; a user whose DM raised, whose friend request
\* went through and to whom no send returned is not in the ledger, in
\* memory or exported.
C2_LedgerOnlyOnSend ==
  RunActive =>
    /\ UserIdSet(AddedRows) \subseteq SentSet
    /\ \A u \in (dm_failed_run \cap fr_ok_run) \ SentSet :
         /\ u \notin UserIdSet(df_users_DMed)
         /\ pc = "done" => u \notin StoreUsers

C2_Witness ==
  /\ pc = "done"
  /\ \E u \in (dm_failed_run \cap fr_ok_run) \ SentSet : u \notin StoreUsers
  /\ SentSet # {}

\* C3: no two entries of the ledger, in memory or in the store, have the
\* same user_id (the ledger loaded by the first run has none).
C3_LedgerUnique ==
  /\ NoDup(df_users_DMed)
  /\ NoDup(read_csv(ledger_store.rows))

C3_Witness ==
  /\ pc = "loop"
  /\ i >= 2
  /\ outrage_users_info[1] = outrage_users_info[2]
  /\ outrage_users_info[1] \in SentSet
  /\ Len(loaded) >= 1

\* C4 as stated: a second run on the same candidate table, with the ledger
\* the first run exported, sends nothing and skips every candidate as
\* already contacted.
C4_RerunSendsNothing ==
  Rerun =>
    /\ sent_run = << >>
    /\ pc = "done" => num_users_previously_DMed = Len(outrage_users_info)

\* C4 amended: the second run sends only to users whose DM attempt raised
\* in the first run and to whom the first run sent nothing; it skips as
\* already contacted exactly the rows whose user is in the exported ledger;
\* when no such user is left it sends nothing and skips every row.
C4_RerunSendsOnlyToFailed ==
  Rerun =>
    /\ SentSet \subseteq prev_failed \ prev_sent
    /\ SentSet \cap UserIdSet(loaded) = {}
    /\ pc = "done" => num_users_previously_DMed = Cardinality(RowsInLoaded)
    /\ (pc = "done" /\ prev_failed \subseteq prev_sent) =>
          /\ sent_run = << >>
          /\ num_users_previously_DMed = Len(outrage_users_info)

C4_Witness ==
  /\ Rerun
  /\ pc = "done"
  /\ prev_sent # {}
  /\ prev_failed = {}
  /\ Len(outrage_users_info) >= 2
  /\ sent_run = << >>
  /\ num_users_previously_DMed = Len(outrage_users_info)

\* C5: a run restarted after a crash, on the same candidate table, makes no
\* DM attempt for a user the crashed run had messaged.
C5_RestartSkipsSent ==
  (prev_status = "crashed" /\ outrage_users_info = prev_batch) =>
     prev_sent \cap dm_attempt_run = {}

\* C6: the in-memory ledger starts with the entries loaded, unchanged, and
\* the exported ledger is these entries followed by one entry per user
\* messaged in this run, in the order of the sends.
C6_LedgerAppendOnly ==
  RunActive =>
    /\ Len(loaded) <= Len(df_users_DMed)
    /\ SubSeq(SelectColumns(df_users_DMed), 1, Len(loaded)) = loaded
    /\ pc = "done" =>
          /\ ledger_store.present
          /\ SelectColumns(read_csv(ledger_store.rows)) =
                loaded \o [ k \in 1..Len(sent_run) |->
                             [ user_names |-> ScreenName(sent_run[k]),
                               user_ids |-> sent_run[k],
                               date_time_messaged |-> run ] ]

C6_Witness ==
  /\ pc = "done"
  /\ Len(loaded) >= 1
  /\ Len(sent_run) >= 1
  /\ Len(read_csv(ledger_store.rows)) = Len(loaded) + Len(sent_run)

\* C7: whenever the loop is about to take the next candidate, every user
\* whose send returned in this run is in the in-memory ledger.
C7_RecordedBeforeNext ==
  pc = "loop" => SentSet \subseteq UserIdSet(df_users_DMed)

C7_Witness ==
  /\ pc = "loop"
  /\ i < Len(outrage_users_info)
  /\ i >= 1
  /\ outrage_users_info[i] \in SentSet
  /\ outrage_users_info[i] \in UserIdSet(df_users_DMed)
  /\ outrage_users_info[i] \notin UserIdSet(loaded)

C9_AbsentLedgerStartsEmpty ==
  (~ledger_store.present /\ pc \notin { "idle", "import" }) =>
     /\ pc \in { "loop", "send", "fallback" }
     /\ loaded = << >>
     /\ df_users_DMed = << >>

\* C10: a run interrupted between two candidates has printed the summary
\* and persisted the ledger with every user recorded before the interrupt.
C10_InterruptedRunPersists ==
  pc = "interrupted" =>
     /\ summary_printed
     /\ ledger_store.present
     /\ UserIdSet(df_users_DMed) \subseteq StoreUsers

\* rows of data of user u over the threshold
AboveRows(u) ==
  { k \in 1..Len(data) : data[k].user_id = u /\ data[k].gru_prob > Threshold }

\* the earliest of them, the smallest tweet id among equally early ones
EarliestAbove(u) ==
  CHOOSE k \in AboveRows(u) :
    \A j \in AboveRows(u) :
       \/ data[k].created_at < data[j].created_at
       \/ /\ data[k].created_at = data[j].created_at
          /\ data[k].tweet_id <= data[j].tweet_id

CandidateUsers == { candidates[k].user_id : k \in 1..Len(candidates) }

\* C11: no user_id is in more than one row of the candidate table.
C11_OneCandidatePerUser ==
  pc = "selected" =>
    \A j \in 1..Len(candidates), k \in 1..Len(candidates) :
       j # k => candidates[j].user_id # candidates[k].user_id

\* C12: every user with a tweet over the threshold has a candidate, and it
\* is the earliest of the user's tweets over the threshold (smallest tweet
\* id among equally early ones).
C12_EarliestAboveThreshold ==
  pc = "selected" =>
    \A u \in Users :
       AboveRows(u) # {} =>
         /\ u \in CandidateUsers
         /\ \A k \in 1..Len(candidates) :
              candidates[k].user_id = u =>
                candidates[k].tweet_id = data[EarliestAbove(u)].tweet_id

\* C13: the candidate table is in ascending order of user_id, whatever the
\* order of the rows of data.
C13_AscendingUserOrder ==
  pc = "selected" =>
    \A j \in 1..Len(candidates), k \in 1..Len(candidates) :
       j < k => candidates[j].user_id <= candidates[k].user_id

\* C14: a tweet scored exactly the threshold is no candidate, the user of a
\* tweet scored over the threshold has a candidate, and a user with no tweet
\* over the threshold has none.
C14_ThresholdBoundary ==
  pc = "selected" =>
    /\ \A k \in 1..Len(candidates) : candidates[k].gru_prob # Threshold
    /\ \A k \in 1..Len(data) :
         data[k].gru_prob > Threshold => data[k].user_id \in CandidateUsers
    /\ \A u \in Users : AboveRows(u) = {} => u \notin CandidateUsers

LoadedUsers == { loaded[k].user_ids : k \in 1..Len(loaded) }

\* C15: the iteration of a candidate whose user is in the ledger loaded at
\* run start makes no platform call (no friendship lookup, no DM, no friend
\* request), leaves the ledger as it is and goes to the next candidate.
C15_LedgerShortCircuit ==
  [][ (pc = "loop" /\ i < Len(outrage_users_info) /\ CurrentUser \in LoadedUsers) =>
        /\ lookup_run' = lookup_run
        /\ dm_attempt_run' = dm_attempt_run
        /\ fr_ok_run' = fr_ok_run
        /\ number_new_friend_requests' = number_new_friend_requests
        /\ df_users_DMed' = df_users_DMed
        /\ pc' = "loop"
        /\ i' = i + 1 ]_vars

C15_Witness ==
  /\ pc = "loop"
  /\ i = 2
  /\ outrage_users_info[2] \in LoadedUsers
  /\ outrage_users_info[1] \in lookup_run
  /\ outrage_users_info[2] \notin lookup_run
  /\ num_users_previously_DMed = 1

\* C16: a DM attempt that fails with the rate limit does not lead to the
\* fallback friend request.
C16_RateLimitedDMDeferred ==
  pc = "fallback" => dm_raised # "RateLimited"

\* C17 as stated: the DM flag that the platform reports decides, before the
\* mutual follow is looked at.
C17_ExplicitFlagFirst ==
  pc = "send" => can_DM = friend_json.can_dm

\* C17 amended: a mutual follow resolves to TRUE whatever the flag is;
\* otherwise the flag of the platform is the result.
C17_MutualFollowFirst ==
  pc = "send" =>
    can_DM = IF friend_json.followed_by /\ friend_json.following
               THEN TRUE
               ELSE friend_json.can_dm

C17_Witness ==
  /\ pc = "send"
  /\ friend_json.followed_by
  /\ friend_json.following
  /\ ~friend_json.can_dm
  /\ can_DM
  /\ CurrentUser \in lookup_run

\* C18: a direct message is attempted only for a user for whom the
\* friendship status was looked up.
C18_ResolverBeforeDM == dm_attempt_run \subseteq lookup_run

\* C19: send_direct_message is called (it returns or it raises) only for a
\* user who is not in the in-memory ledger as it is at that moment.
C19_CurrentLedgerChecked ==
  [][ (pc = "send" /\ (pc' = "fallback" \/ sent_run' # sent_run)) =>
        CurrentUser \notin UserIdSet(df_users_DMed) ]_vars

C19_Witness ==
  /\ pc = "loop"
  /\ i = 2
  /\ outrage_users_info[1] = outrage_users_info[2]
  /\ sent_run = << outrage_users_info[1] >>
  /\ dm_failed_run = {}
  /\ loaded = << >>
  /\ outrage_users_info[2] \in UserIdSet(df_users_DMed)
  /\ outrage_users_info[2] \notin user_ids_previously_messaged

LoopPcs == { "loop", "send", "fallback" }

\* C21: a DM attempt that raised anything but the rate limit goes to the
\* fallback; the fallback is one friend request, after which the loop is at
\* the next candidate, the user neither messaged nor in the ledger, whether
\* or not the request went through.
C21_FallbackOnce ==
  [][ /\ (pc = "send" /\ dm_raised' \in DMErrors \ { "RateLimited" }) =>
            /\ pc' = "fallback"
            /\ i' = i
      /\ (pc = "fallback" /\ dm_raised # "RateLimited") =>
            /\ pc' = "loop"
            /\ i' = i + 1
            /\ df_users_DMed' = df_users_DMed
            /\ sent_run' = sent_run
            /\ dm_attempt_run' = dm_attempt_run
            /\ dm_failed_run' = dm_failed_run
            /\ number_new_friend_requests' \in
                 { number_new_friend_requests, number_new_friend_requests + 1 } ]_vars

C21_Witness ==
  /\ pc = "loop"
  /\ i = 1
  /\ Len(outrage_users_info) = 2
  /\ dm_failed_run = { outrage_users_info[1] }
  /\ fr_ok_run = {}
  /\ number_new_friend_requests = 0
  /\ sent_run = << >>
  /\ outrage_users_info[1] \notin UserIdSet(df_users_DMed)

\* C22: the first DM attempt for a candidate that raises an OtherTransient
\* error is followed by a second attempt, not by the fallback.
C22_OtherTransientRetried ==
  [][ (pc = "send" /\ dm_raised' = "OtherTransient") => pc' # "fallback" ]_vars

\* C23: a run makes no more pauses than it has processed candidates, which
\* are no more than the batch holds, and a run in the loop reaches the
\* export, whatever the platform answers.
C23_LoopTerminates ==
  /\ [](num_pauses <= i /\ i <= Len(outrage_users_info))
  /\ (pc = "loop") ~> (pc = "done")

C23_Witness ==
  /\ pc = "done"
  /\ Len(outrage_users_info) >= 2
  /\ num_pauses = Len(outrage_users_info)
  /\ last_pause = "RateLimited"
  /\ dm_attempt_run = {}

\* C24: no step of the loop ends the run other than by the export, and a
\* run whose DM raised reaches the export, also when the status check of
\* another candidate and the fallback friend request raised.
C24_FailuresDoNotEndRun ==
  /\ [][ (pc \in LoopPcs) => (pc' \in LoopPcs \cup { "done" }) ]_vars
  /\ (pc = "fallback") ~> (pc = "done" /\ ledger_store.present)

C24_Witness ==
  /\ pc = "done"
  /\ num_pauses >= 1
  /\ dm_failed_run # {}
  /\ fr_ok_run = {}
  /\ number_new_friend_requests = 0
  /\ sent_run = << >>

\* C25: send_direct_message is not called for a user for whom it was called
\* earlier in the run.
C25_OneAttemptPerUser ==
  [][ (pc = "send" /\ (pc' = "fallback" \/ sent_run' # sent_run)) =>
        CurrentUser \notin dm_attempt_run ]_vars

\* the ways the iteration of a row ends
RowSkipped ==
  /\ pc = "loop"
  /\ CurrentUser \in LoadedUsers
  /\ num_users_previously_DMed' = num_users_previously_DMed + 1
  /\ sent_run' = sent_run
  /\ df_users_DMed' = df_users_DMed

RowSent ==
  /\ pc = "send"
  /\ sent_run' = Append(sent_run, CurrentUser)
  /\ CurrentUser \in UserIdSet(df_users_DMed')
  /\ num_users_previously_DMed' = num_users_previously_DMed

RowFailed ==
  /\ pc = "fallback"
  /\ CurrentUser \in dm_failed_run
  /\ sent_run' = sent_run
  /\ df_users_DMed' = df_users_DMed
  /\ num_users_previously_DMed' = num_users_previously_DMed

RowNotAttempted ==
  /\ pc = "send"
  /\ dm_attempt_run' = dm_attempt_run
  /\ sent_run' = sent_run
  /\ df_users_DMed' = df_users_DMed
  /\ num_users_previously_DMed' = num_users_previously_DMed

\* C27: the loop index moves by one row at a time, the iteration of a row
\* ends in exactly one of the four ways, the loop ends after the last row,
\* and then num_users_previously_DMed is the number of rows whose user is in
\* the ledger loaded at run start.
C27_RowsVisitedOnce ==
  [][ /\ (pc \in LoopPcs /\ i' # i) =>
            /\ i' = i + 1
            /\ i < Len(outrage_users_info)
            /\ \/ RowSkipped /\ ~RowSent /\ ~RowFailed /\ ~RowNotAttempted
               \/ ~RowSkipped /\ RowSent /\ ~RowFailed /\ ~RowNotAttempted
               \/ ~RowSkipped /\ ~RowSent /\ RowFailed /\ ~RowNotAttempted
               \/ ~RowSkipped /\ ~RowSent /\ ~RowFailed /\ RowNotAttempted
      /\ (pc \in LoopPcs /\ i' = i) =>
            /\ num_users_previously_DMed' = num_users_previously_DMed
            /\ sent_run' = sent_run
      /\ (pc \in LoopPcs /\ pc' = "done") =>
            /\ i = Len(outrage_users_info)
            /\ num_users_previously_DMed = Cardinality(RowsInLoaded) ]_vars

C27_Witness ==
  /\ pc = "done"
  /\ Len(outrage_users_info) = 2
  /\ outrage_users_info[1] = outrage_users_info[2]
  /\ Len(sent_run) = 1
  /\ dm_failed_run = {}
  /\ loaded # << >>
  /\ num_users_previously_DMed = 0

\* C26: new_tweets.json never holds more records of this stream than
\* max_num_tweets, however many times on_data is called.
C26_NeverMoreThanMax == Len(new_tweets) <= max_num_tweets

C26_Witness ==
  /\ max_num_tweets >= 1
  /\ tweet_count >= max_num_tweets + 2
  /\ Len(new_tweets) = max_num_tweets
  /\ last_call.name = "on_data"

C29_ParsedTable ==
  parse_pc # "call" /\ parse_pc # "off" =>
    /\ parse_pc = "returned"
    /\ \A c \in ColumnNames :
         Len(parse_data[c]) = Len(SelectSeq(tweets, Passes))
    /\ \A j \in 1..Len(df_parsed), k \in 1..Len(df_parsed) :
         j # k => df_parsed[j]["tweet_id"] # df_parsed[k]["tweet_id"]
    /\ \A k \in 1..Len(df_parsed) :
         \E n \in 1..Len(tweets) :
            /\ tweets[n].has_text
            /\ ~tweets[n].retweeted_status
            /\ ~RTInText(tweets[n].text)
            /\ ~tweets[n].verified
            /\ tweets[n].id_str = df_parsed[k]["tweet_id"]

C29_Witness ==
  /\ parse_pc = "returned"
  /\ Len(tweets) = 2
  /\ Passes(tweets[1])
  /\ Passes(tweets[2])
  /\ tweets[1].id_str = tweets[2].id_str
  /\ tweets[1].truncated
  /\ ~tweets[2].truncated
  /\ Len(df_parsed) = 1

\* the listed messages that the account did not send
FromOthers == SelectSeq(messages_list, LAMBDA m : int(m.sender_id) # own_id)

\* C30: the exported table has one row per listed message whose sender is
\* not the account, in the order of the list, and no row of the account.
C30_RepliesOnly ==
  recv_pc = "exported" =>
    /\ Len(messages_from_users) = Len(FromOthers)
    /\ \A k \in 1..Len(messages_from_users) :
         /\ messages_from_users[k].sender_id = int(FromOthers[k].sender_id)
         /\ messages_from_users[k].message = FromOthers[k].text
         /\ messages_from_users[k].sender_id # own_id

C30_Witness ==
  /\ recv_pc = "exported"
  /\ Len(messages_list) = 2
  /\ int(messages_list[1].sender_id) = own_id
  /\ int(messages_list[2].sender_id) # own_id
  /\ Len(messages_from_users) = 1
  /\ messages_from_users[1].message = messages_list[2].text

====
